---- MODULE Spec2Model ----
(***************************************************************************)
(* Model of the hotel-booking REST backend: the Hotel and Room controllers *)
(* (api/controllers/hotel.js, api/controllers/room.js) over the document   *)
(* store.  Every await of a handler is one atomic store call; handlers     *)
(* with more than one store call are in flight between their calls and    *)
(* interleave with every other request.                                    *)
(***************************************************************************)
EXTENDS Integers, Sequences, FiniteSets, TLC

VARIABLES
    hotels,       \* the Hotel collection: _id -> document
    rooms,        \* the Room collection: _id -> document
    nextHotelId,  \* the next fresh Hotel _id
    nextRoomId,   \* the next fresh Room _id
    req,          \* per request slot: the multi-step handler in flight there
    resp          \* the outcome of the handler invocation that completed last

vars == <<hotels, rooms, nextHotelId, nextRoomId, req, resp>>

(* Bounds of the model: the Room and Hotel ids the store hands out. *)
MaxRooms == 2
MaxHotels == 2

(* The request slots of the handlers that make more than one store call. *)
Procs == {1, 2}

(* The ids a request names: the ids the store has handed out so far.  An   *)
(* id that names no document is the id of a deleted one: the store cannot  *)
(* tell it from an id it never handed out.                                 *)
HotelInputs == 1..(nextHotelId - 1)
RoomInputs == 1..(nextRoomId - 1)

(* JavaScript null, as a document that is no Hotel and no Room. *)
Null == [isNull |-> TRUE]

Range(s) == {s[i] : i \in DOMAIN s}

Idle == [pc |-> "idle"]

(* Request payloads. *)
Titles == {"a", "b"}
CityP == <<"P">>
CityT == <<"T">>
EmptyBody == [x \in {} |-> 0]

(***************************************************************************)
(* The store calls the handlers make.                                      *)
(***************************************************************************)

(* Model.findById(id): the document, or null when no document has the id. *)
findById(coll, id) == IF id \in DOMAIN coll THEN coll[id] ELSE Null

(* doc.save(): the document is stored under its _id. *)
save(coll, doc) == [x \in DOMAIN coll \cup {doc.id} |-> IF x = doc.id THEN doc ELSE coll[x]]

(* Model.findByIdAndDelete(id): a missing id deletes nothing and is no error. *)
findByIdAndDelete(coll, id) == [x \in DOMAIN coll \ {id} |-> coll[x]]

(* Faulty variant of setFields: the update overwrites the document, and    *)
(* the rooms list, when the body does not name it, falls back to its       *)
(* default.                                                                *)
setFieldsOverwriting(doc, body) ==
    [f \in DOMAIN doc |->
        IF f \in DOMAIN body THEN body[f] ELSE IF f = "rooms" THEN <<>> ELSE doc[f]]

(* { $set: body } applied to one document: the named fields are replaced. *)
setFields(doc, body) == [f \in DOMAIN doc |-> IF f \in DOMAIN body THEN body[f] ELSE doc[f]]

(* Model.findByIdAndUpdate(id, { $set: body }): a missing id updates nothing. *)
findByIdAndSet(coll, id, body) ==
    IF id \in DOMAIN coll THEN [coll EXCEPT ![id] = setFields(@, body)] ELSE coll

(* Faulty variants of pushRoom: the append is dropped; the append replaces  *)
(* the list.                                                               *)
pushRoomDropped(hs, h, id) == hs

pushRoomOverwrites(hs, h, id) ==
    IF h \in DOMAIN hs THEN [hs EXCEPT ![h].rooms = <<id>>] ELSE hs

(* Hotel.findByIdAndUpdate(hotelId, { $push: { rooms: id } }): one atomic append. *)
pushRoom(hs, h, id) ==
    IF h \in DOMAIN hs THEN [hs EXCEPT ![h].rooms = Append(@, id)] ELSE hs

(* Hotel.findByIdAndUpdate(hotelId, { $pull: { rooms: id } }): every occurrence goes. *)
pullRoom(hs, h, id) ==
    IF h \in DOMAIN hs
    THEN [hs EXCEPT ![h].rooms = SelectSeq(@, LAMBDA x : x # id)]
    ELSE hs

(* new Hotel(req.body) and new Room(req.body), with the fresh _id. *)
NewHotel(id, body) ==
    [id |-> id, city |-> body.city, cheapestPrice |-> body.cheapestPrice, rooms |-> <<>>]

NewRoom(id, body) == [id |-> id, title |-> body.title]

(***************************************************************************)
(* What a handler hands to its caller: res.status(200).json(body) counts   *)
(* in ok, next(err) counts in errs.                                        *)
(***************************************************************************)
Ok(body) == [ok |-> 1, errs |-> 0, body |-> body]
Err == [ok |-> 0, errs |-> 1, body |-> Null]

(* JSON bodies that are no document: a string and an array. *)
Message(text) == [text |-> text]
Array(items) == [items |-> items]

(* The outcome of one invocation: the handler, the id its path names       *)
(* (req.params.id), what it sent, and notes on how the invocation ran:     *)
(* "linkFailed" (its link write failed), "reordered" (a later fan-out call *)
(* settled before an earlier one), "dirty" (the store was written between  *)
(* its fan-out calls).                                                     *)
Respond(op, id, out) ==
    [op |-> op, id |-> id, ok |-> out.ok, errs |-> out.errs, body |-> out.body,
     notes |-> {}]

(* A request takes the first free slot. *)
FreeSlot(p) ==
    /\ req[p].pc = "idle"
    /\ \A q \in Procs : q < p => req[q].pc # "idle"

(* A write to the Hotel collection lands between the count queries of      *)
(* every countByCity then in flight.                                       *)
Disturb(rq, changed) ==
    [q \in Procs |->
        IF changed /\ rq[q].pc = "count" THEN [rq[q] EXCEPT !.dirty = TRUE] ELSE rq[q]]

(***************************************************************************)
(* Hotel handlers with a single store call.                                *)
(***************************************************************************)
createHotelResponse(doc, fails) == IF fails THEN Err ELSE Ok(doc)

CreateHotel(ids, body, fails) ==
    /\ nextHotelId \in ids
    /\ LET doc == NewHotel(nextHotelId, body) IN
        /\ hotels' = IF fails THEN hotels ELSE save(hotels, doc)
        /\ nextHotelId' = IF fails THEN nextHotelId ELSE nextHotelId + 1
        /\ resp' = Respond("createHotel", 0, createHotelResponse(doc, fails))
        /\ req' = Disturb(req, ~fails)
    /\ UNCHANGED <<rooms, nextRoomId>>

updateHotelResponse(hs, h, body, fails) ==
    IF fails THEN Err ELSE Ok(findById(findByIdAndSet(hs, h, body), h))

UpdateHotel(h, body, fails) ==
    /\ hotels' = IF fails THEN hotels ELSE findByIdAndSet(hotels, h, body)
    /\ resp' = Respond("updateHotel", h, updateHotelResponse(hotels, h, body, fails))
    /\ req' = Disturb(req, hotels' # hotels)
    /\ UNCHANGED <<rooms, nextHotelId, nextRoomId>>

deleteHotelResponse(fails) == IF fails THEN Err ELSE Ok(Message("Hotel has been deleted"))

DeleteHotel(h, fails) ==
    /\ hotels' = IF fails THEN hotels ELSE findByIdAndDelete(hotels, h)
    /\ resp' = Respond("deleteHotel", h, deleteHotelResponse(fails))
    /\ req' = Disturb(req, hotels' # hotels)
    /\ UNCHANGED <<rooms, nextHotelId, nextRoomId>>

getHotelResponse(hs, h, fails) == IF fails THEN Err ELSE Ok(findById(hs, h))

GetHotel(h, fails) ==
    /\ resp' = Respond("getHotel", h, getHotelResponse(hotels, h, fails))
    /\ UNCHANGED <<hotels, rooms, nextHotelId, nextRoomId, req>>

(***************************************************************************)
(* Room handlers with a single store call.                                 *)
(***************************************************************************)
updateRoomResponse(rs, id, body, fails) ==
    IF fails THEN Err ELSE Ok(findById(findByIdAndSet(rs, id, body), id))

UpdateRoom(id, body, fails) ==
    /\ rooms' = IF fails THEN rooms ELSE findByIdAndSet(rooms, id, body)
    /\ resp' = Respond("updateRoom", id, updateRoomResponse(rooms, id, body, fails))
    /\ UNCHANGED <<hotels, nextHotelId, nextRoomId, req>>

getRoomResponse(rs, id, fails) == IF fails THEN Err ELSE Ok(findById(rs, id))

GetRoom(id, fails) ==
    /\ resp' = Respond("getRoom", id, getRoomResponse(rooms, id, fails))
    /\ UNCHANGED <<hotels, rooms, nextHotelId, nextRoomId, req>>

(***************************************************************************)
(* createRoom and deleteRoom: the room-side write, then the hotel-side     *)
(* link write, then the response.                                          *)
(***************************************************************************)

(* Faulty variant of linkOutcome: the inner catch drops the error. *)
linkOutcomeSwallowed(body, fails, sent) == [ok |-> 1, errs |-> 0, body |-> body]

(* The inner try/catch around the link write and the response after it:    *)
(* a failed link write calls next(error) and control still reaches         *)
(* res.status(200).json(body).  That call either sends the 200 response,   *)
(* or throws because the error path has already answered, and then the    *)
(* outer catch calls next a second time.                                   *)
linkOutcome(body, fails, sent) ==
    IF ~fails THEN Ok(body)
    ELSE IF sent THEN [ok |-> 1, errs |-> 1, body |-> body]
    ELSE [ok |-> 0, errs |-> 2, body |-> Null]

InFlight(op, h, id, saved) ==
    [pc |-> "link", op |-> op, hotelId |-> h, id |-> id, saved |-> saved]

CreateRoomSave(p, h, body, fails) ==
    /\ FreeSlot(p)
    /\ nextRoomId <= MaxRooms
    /\ LET doc == NewRoom(nextRoomId, body) IN
        IF fails
        THEN /\ resp' = Respond("createRoom", 0, Err)
             /\ UNCHANGED <<rooms, nextRoomId, req>>
        ELSE /\ rooms' = save(rooms, doc)
             /\ nextRoomId' = nextRoomId + 1
             /\ req' = [req EXCEPT ![p] = InFlight("createRoom", h, doc.id, doc)]
             /\ UNCHANGED resp
    /\ UNCHANGED <<hotels, nextHotelId>>

CreateRoomLink(p, fails, sent) ==
    /\ req[p].pc = "link"
    /\ req[p].op = "createRoom"
    /\ hotels' = IF fails THEN hotels ELSE pushRoom(hotels, req[p].hotelId, req[p].id)
    /\ resp' = [Respond("createRoom", req[p].id, linkOutcome(req[p].saved, fails, sent))
                EXCEPT !.notes = IF fails THEN {"linkFailed"} ELSE {}]
    /\ req' = [Disturb(req, hotels' # hotels) EXCEPT ![p] = Idle]
    /\ UNCHANGED <<rooms, nextHotelId, nextRoomId>>

DeleteRoomDelete(p, h, id, fails) ==
    /\ FreeSlot(p)
    /\ IF fails
       THEN /\ resp' = Respond("deleteRoom", id, Err)
            /\ UNCHANGED <<rooms, req>>
       ELSE /\ rooms' = findByIdAndDelete(rooms, id)
            /\ req' = [req EXCEPT ![p] = InFlight("deleteRoom", h, id, Null)]
            /\ UNCHANGED resp
    /\ UNCHANGED <<hotels, nextHotelId, nextRoomId>>

DeleteRoomLink(p, fails, sent) ==
    /\ req[p].pc = "link"
    /\ req[p].op = "deleteRoom"
    /\ hotels' = IF fails THEN hotels ELSE pullRoom(hotels, req[p].hotelId, req[p].id)
    /\ resp' = [Respond("deleteRoom", req[p].id,
                        linkOutcome(Message("Room has been deleted"), fails, sent))
                EXCEPT !.notes = IF fails THEN {"linkFailed"} ELSE {}]
    /\ req' = [Disturb(req, hotels' # hotels) EXCEPT ![p] = Idle]
    /\ UNCHANGED <<rooms, nextHotelId, nextRoomId>>

(***************************************************************************)
(* The specification of the Hotel-Room link: every handler that writes the *)
(* store, and the two by-id reads.                                         *)
(***************************************************************************)
Init ==
    /\ hotels = <<>>
    /\ rooms = <<>>
    /\ nextHotelId = 1
    /\ nextRoomId = 1
    /\ req = [p \in Procs |-> Idle]
    /\ resp = Respond("none", 0, [ok |-> 0, errs |-> 0, body |-> Null])

(* No handler reads or writes two Hotels in one call, so one Hotel id is    *)
(* the whole link protocol: it names no Hotel before its creation and      *)
(* after its deletion.                                                     *)
LinkHotelIds == {1}
LinkHotelBodies == {[city |-> CityP, cheapestPrice |-> 1]}
LinkHotelUpdates == {EmptyBody, [rooms |-> <<>>]}
RoomBodies == {[title |-> t] : t \in Titles}

Next ==
    \/ \E b \in LinkHotelBodies, f \in BOOLEAN : CreateHotel(LinkHotelIds, b, f)
    \/ \E h \in HotelInputs, b \in LinkHotelUpdates, f \in BOOLEAN : UpdateHotel(h, b, f)
    \/ \E h \in HotelInputs, f \in BOOLEAN : DeleteHotel(h, f)
    \/ \E h \in HotelInputs, f \in BOOLEAN : GetHotel(h, f)
    \/ \E id \in RoomInputs, b \in RoomBodies, f \in BOOLEAN : UpdateRoom(id, b, f)
    \/ \E id \in RoomInputs, f \in BOOLEAN : GetRoom(id, f)
    \/ \E p \in Procs, h \in HotelInputs, b \in RoomBodies, f \in BOOLEAN :
            CreateRoomSave(p, h, b, f)
    \/ \E p \in Procs, f \in BOOLEAN, sent \in BOOLEAN : CreateRoomLink(p, f, sent)
    \/ \E p \in Procs, h \in HotelInputs, id \in RoomInputs, f \in BOOLEAN :
            DeleteRoomDelete(p, h, id, f)
    \/ \E p \in Procs, f \in BOOLEAN, sent \in BOOLEAN : DeleteRoomLink(p, f, sent)

Spec == Init /\ [][Next]_vars

(***************************************************************************)
(* getHotelRooms: the Hotel lookup, then one Room lookup per id of its     *)
(* rooms, all issued at once and settling in any order (Promise.all).      *)
(***************************************************************************)

(* Faulty variant of settle: results are kept in the order they arrive. *)
settleInArrivalOrder(list, settled, i, doc) == [list EXCEPT ![settled + 1] = doc]

(* Promise.all: the result of the i-th promise takes position i, however   *)
(* many have settled before it.                                            *)
settle(list, settled, i, doc) == [list EXCEPT ![i] = doc]

FanOut(pc, op, id, keys) ==
    [pc |-> pc, op |-> op, id |-> id, keys |-> keys, pending |-> DOMAIN keys,
     list |-> [i \in DOMAIN keys |-> Null], reordered |-> FALSE, dirty |-> FALSE]

(* The step of a fan-out in which call i settles with result doc: the last *)
(* one to settle resolves Promise.all and the handler answers.             *)
Settle(p, i, doc) ==
    LET r == req[p]
        list == settle(r.list, Len(r.keys) - Cardinality(r.pending), i, doc)
        pending == r.pending \ {i}
        reordered == r.reordered \/ \E j \in pending : j < i
    IN  IF pending = {}
        THEN /\ resp' = [Respond(r.op, r.id, Ok(Array(list))) EXCEPT
                            !.notes = (IF reordered THEN {"reordered"} ELSE {})
                                      \cup (IF r.dirty THEN {"dirty"} ELSE {})]
             /\ req' = [req EXCEPT ![p] = Idle]
        ELSE /\ req' = [req EXCEPT ![p] = [r EXCEPT !.list = list, !.pending = pending,
                                                     !.reordered = reordered]]
             /\ UNCHANGED resp

(* A rejected call rejects Promise.all: the catch calls next(error). *)
Reject(p) ==
    /\ resp' = Respond(req[p].op, req[p].id, Err)
    /\ req' = [req EXCEPT ![p] = Idle]

GetHotelRoomsFind(p, h, fails) ==
    /\ FreeSlot(p)
    /\ LET hotel == findById(hotels, h) IN
        IF fails \/ hotel = Null
        THEN /\ resp' = Respond("getHotelRooms", h, Err)
             /\ UNCHANGED req
        ELSE IF hotel.rooms = <<>>
        THEN /\ resp' = Respond("getHotelRooms", h, Ok(Array(<<>>)))
             /\ UNCHANGED req
        ELSE /\ req' = [req EXCEPT ![p] = FanOut("lookup", "getHotelRooms", h, hotel.rooms)]
             /\ UNCHANGED resp
    /\ UNCHANGED <<hotels, rooms, nextHotelId, nextRoomId>>

GetHotelRoomsLookup(p, i, fails) ==
    /\ req[p].pc = "lookup"
    /\ i \in req[p].pending
    /\ IF fails THEN Reject(p) ELSE Settle(p, i, findById(rooms, req[p].keys[i]))
    /\ UNCHANGED <<hotels, rooms, nextHotelId, nextRoomId>>

(***************************************************************************)
(* The specification of the Hotel's rooms expansion: getHotelRooms among   *)
(* the handlers that create and delete Hotels and Rooms.                   *)
(***************************************************************************)
ListRoomBodies == {[title |-> "a"]}
Slots == 1..MaxRooms

RoomsNext ==
    \/ \E b \in LinkHotelBodies, f \in BOOLEAN : CreateHotel(LinkHotelIds, b, f)
    \/ \E h \in HotelInputs, f \in BOOLEAN : DeleteHotel(h, f)
    \/ \E p \in Procs, h \in HotelInputs, b \in ListRoomBodies, f \in BOOLEAN :
            CreateRoomSave(p, h, b, f)
    \/ \E p \in Procs, f \in BOOLEAN, sent \in BOOLEAN : CreateRoomLink(p, f, sent)
    \/ \E p \in Procs, h \in HotelInputs, id \in RoomInputs, f \in BOOLEAN :
            DeleteRoomDelete(p, h, id, f)
    \/ \E p \in Procs, f \in BOOLEAN, sent \in BOOLEAN : DeleteRoomLink(p, f, sent)
    \/ \E p \in Procs, h \in HotelInputs, f \in BOOLEAN : GetHotelRoomsFind(p, h, f)
    \/ \E p \in Procs, i \in Slots, f \in BOOLEAN : GetHotelRoomsLookup(p, i, f)

RoomsSpec == Init /\ [][RoomsNext]_vars

(***************************************************************************)
(* getHotels: one find with the price range and the other query keys.      *)
(***************************************************************************)
DefaultMax == 999

(* n | 1 on a 32-bit integer: the lowest bit is set. *)
bitOr1(n) == IF n % 2 = 0 THEN n + 1 ELSE n

(* min | 1: an absent min is undefined, which | takes as 0. *)
lowerBound(q) == IF "min" \in DOMAIN q THEN bitOr1(q.min) ELSE bitOr1(0)

(* max || 999: a max given in the query string is a non-empty string,      *)
(* which is truthy whatever number it spells.                              *)
upperBound(q) == IF "max" \in DOMAIN q THEN q.max ELSE DefaultMax

(* const { min, max, ...others } = req.query *)
others(q) == [k \in DOMAIN q \ {"min", "max"} |-> q[k]]

(* { ...others, cheapestPrice: { $gt: min | 1, $lt: max || 999 } } *)
matches(doc, q) ==
    /\ \A k \in DOMAIN others(q) : doc[k] = q[k]
    /\ doc.cheapestPrice > lowerBound(q)
    /\ doc.cheapestPrice < upperBound(q)

(* Hotel.find(filter): the matching documents in storage order. *)
find(hs, q) ==
    LET ids == {h \in DOMAIN hs : matches(hs[h], q)}
        nth(i) == CHOOSE h \in ids : Cardinality({x \in ids : x < h}) = i - 1
    IN  [i \in 1..Cardinality(ids) |-> hs[nth(i)]]

getHotelsResponse(hs, q, fails) == IF fails THEN Err ELSE Ok(Array(find(hs, q)))

GetHotels(q, fails) ==
    /\ resp' = Respond("getHotels", 0, getHotelsResponse(hotels, q, fails))
    /\ UNCHANGED <<hotels, rooms, nextHotelId, nextRoomId, req>>

(***************************************************************************)
(* countByCity: the cities string is split at its commas and one count     *)
(* query per name is issued, all at once, settling in any order.           *)
(***************************************************************************)
Comma == ","

(* Faulty variant of split: empty names are dropped. *)
splitSkippingEmpty(str) == SelectSeq(
    LET RECURSIVE parts(_)
        parts(t) ==
            IF \A i \in DOMAIN t : t[i] # Comma THEN <<t>>
            ELSE LET c == CHOOSE i \in DOMAIN t :
                            t[i] = Comma /\ \A j \in 1..(i - 1) : t[j] # Comma
                 IN  <<SubSeq(t, 1, c - 1)>> \o parts(SubSeq(t, c + 1, Len(t)))
    IN parts(str), LAMBDA n : n # <<>>)

(* req.query.cities.split(","): the names between the commas, empty names  *)
(* included; a string without a comma is one name.                         *)
RECURSIVE split(_)
split(str) ==
    IF \A i \in DOMAIN str : str[i] # Comma
    THEN <<str>>
    ELSE LET c == CHOOSE i \in DOMAIN str :
                    str[i] = Comma /\ \A j \in 1..(i - 1) : str[j] # Comma
         IN  <<SubSeq(str, 1, c - 1)>> \o split(SubSeq(str, c + 1, Len(str)))

(* Hotel.countDocuments({ city: city }) *)
countDocuments(hs, city) == Cardinality({h \in DOMAIN hs : hs[h].city = city})

CountByCityCall(p, cities) ==
    /\ FreeSlot(p)
    /\ req' = [req EXCEPT ![p] = FanOut("count", "countByCity", 0, split(cities))]
    /\ UNCHANGED <<hotels, rooms, nextHotelId, nextRoomId, resp>>

CountByCityQuery(p, i, fails) ==
    /\ req[p].pc = "count"
    /\ i \in req[p].pending
    /\ IF fails THEN Reject(p) ELSE Settle(p, i, countDocuments(hotels, req[p].keys[i]))
    /\ UNCHANGED <<hotels, rooms, nextHotelId, nextRoomId>>

(***************************************************************************)
(* The specification of the Hotel search: getHotels among the handlers     *)
(* that create and delete Hotels.                                          *)
(***************************************************************************)
Prices == {1, 2, 3}
PriceBounds == {0, 1, 2, 3}
QueryHotelIds == 1..MaxHotels
QueryHotelBodies == {[city |-> c, cheapestPrice |-> n] : c \in {CityP, CityT}, n \in Prices}

Queries ==
    LET mins == {EmptyBody} \cup {[min |-> n] : n \in PriceBounds}
        maxs == {EmptyBody} \cup {[max |-> n] : n \in PriceBounds}
        cities == {EmptyBody} \cup {[city |-> c] : c \in {CityP, CityT}}
    IN  {a @@ b @@ c : a \in mins, b \in maxs, c \in cities}

QueryNext ==
    \/ \E b \in QueryHotelBodies, f \in BOOLEAN : CreateHotel(QueryHotelIds, b, f)
    \/ \E h \in HotelInputs, f \in BOOLEAN : DeleteHotel(h, f)
    \/ \E q \in Queries, f \in BOOLEAN : GetHotels(q, f)

QuerySpec == Init /\ [][QueryNext]_vars

(***************************************************************************)
(* The specification of the city counts: countByCity, one invocation at a  *)
(* time, among the handlers that create and delete Hotels.                 *)
(***************************************************************************)
MaxLen == 3

CountProcs == {1}
CountHotelBodies == {[city |-> c, cheapestPrice |-> 1] : c \in {CityP, CityT}}

Strings(n) == UNION {[1..k -> {"P", Comma}] : k \in 0..n}

CountNext ==
    \/ \E b \in CountHotelBodies, f \in BOOLEAN : CreateHotel(QueryHotelIds, b, f)
    \/ \E h \in HotelInputs, f \in BOOLEAN : DeleteHotel(h, f)
    \/ \E p \in CountProcs, cities \in Strings(MaxLen) : CountByCityCall(p, cities)
    \/ \E p \in CountProcs, i \in 1..(MaxLen + 1), f \in BOOLEAN : CountByCityQuery(p, i, f)

CountSpec == Init /\ [][CountNext]_vars

(***************************************************************************)
(* Steps of the handlers, as the properties below name them.               *)
(***************************************************************************)

(* Slot p's handler op makes its link write and answers in this step. *)
Completes(p, op) ==
    /\ req[p].pc = "link"
    /\ req[p].op = op
    /\ req'[p].pc = "idle"

(* A handler op with a single store call answers in this step. *)
Answered(op) == resp'.op = op /\ resp' # resp

(* getHotelRooms run with no other request between its store calls. *)
getHotelRoomsResponse(hs, rs, h, fails) ==
    IF fails \/ h \notin DOMAIN hs
    THEN Err
    ELSE Ok(Array([i \in 1..Len(hs[h].rooms) |-> findById(rs, hs[h].rooms[i])]))

(***************************************************************************)
(* C1.  For an existing hotel h, once createRoom(h, attrs) has completed   *)
(* with both store writes succeeding (and the Room as it was saved still   *)
(* stored when the link write lands), getHotelRooms(h) returns a list that *)
(* contains the created Room, and getRoom on the id createRoom returned    *)
(* returns that same Room, whose attributes are attrs.                     *)
(***************************************************************************)
C1_CreateRoomReadBack ==
    [][\A p \in Procs :
        ( /\ Completes(p, "createRoom")
          /\ "linkFailed" \notin resp'.notes
          /\ req[p].hotelId \in DOMAIN hotels
          /\ findById(rooms, req[p].id) = req[p].saved )
        => /\ resp'.ok = 1 /\ resp'.errs = 0
           /\ resp'.body = req[p].saved
           /\ LET list == getHotelRoomsResponse(hotels', rooms', req[p].hotelId, FALSE)
              IN  /\ list.ok = 1
                  /\ \E i \in DOMAIN list.body.items : list.body.items[i] = req[p].saved
           /\ getRoomResponse(rooms', resp'.body.id, FALSE) = Ok(req[p].saved)
    ]_vars

C1_Witness ==
    /\ resp.op = "createRoom"
    /\ resp.ok = 1 /\ resp.errs = 0
    /\ \E h \in DOMAIN hotels : resp.id \in Range(hotels[h].rooms)
    /\ findById(rooms, resp.id) = resp.body

(***************************************************************************)
(* C2.  After deleteRoom(hotelId, id) completes for a Room id listed in    *)
(* the hotel's rooms, a following getRoom(id) fails with NotFound (an      *)
(* error and no success response), and the hotel's rooms no longer hold id.*)
(***************************************************************************)
C2_DeleteRoomThenNotFound ==
    [][\A p \in Procs :
        ( /\ Completes(p, "deleteRoom")
          /\ "linkFailed" \notin resp'.notes
          /\ req[p].hotelId \in DOMAIN hotels
          /\ req[p].id \in Range(hotels[req[p].hotelId].rooms) )
        => /\ LET after == getRoomResponse(rooms', req[p].id, FALSE)
              IN  after.errs = 1 /\ after.ok = 0
           /\ req[p].id \notin Range(hotels'[req[p].hotelId].rooms)
    ]_vars

(***************************************************************************)
(* C3.  createRoom calls for the same hotel whose store calls interleave   *)
(* in any order: each call whose writes succeed answers with success, its  *)
(* append adds its own Room id and keeps every id already in the hotel's   *)
(* rooms, so no append overwrites another.                                 *)
(***************************************************************************)
C3_NoLostAppend ==
    [][\A p \in Procs :
        ( /\ Completes(p, "createRoom")
          /\ "linkFailed" \notin resp'.notes
          /\ req[p].hotelId \in DOMAIN hotels )
        => /\ resp'.ok = 1 /\ resp'.errs = 0
           /\ req[p].id \in Range(hotels'[req[p].hotelId].rooms)
           /\ Range(hotels[req[p].hotelId].rooms) \subseteq Range(hotels'[req[p].hotelId].rooms)
    ]_vars

(* Two createRoom calls overlapped: the Room saved second was linked first, *)
(* and both ids are in the list.                                            *)
C3_Witness ==
    /\ resp.op = "createRoom"
    /\ resp.ok = 1 /\ resp.errs = 0
    /\ \E h \in DOMAIN hotels :
        \E i, j \in DOMAIN hotels[h].rooms :
            /\ i < j
            /\ hotels[h].rooms[i] > hotels[h].rooms[j]
            /\ resp.id = hotels[h].rooms[j]

(***************************************************************************)
(* C6.  When the link write of createRoom or deleteRoom fails after the    *)
(* room-side write, the step changes neither collection (the room-side     *)
(* effect stands, nothing is compensated), the handler ends there (no      *)
(* retry), and the failure reaches next(error).                            *)
(***************************************************************************)
C6_LinkFailureStands ==
    [][\A p \in Procs :
        ( /\ req[p].pc = "link"
          /\ req'[p].pc = "idle"
          /\ "linkFailed" \in resp'.notes )
        => /\ rooms' = rooms
           /\ hotels' = hotels
           /\ resp'.errs >= 1
           /\ (req[p].op = "deleteRoom" => req[p].id \notin DOMAIN rooms')
    ]_vars

(* A deleteRoom whose link write failed: the Room is gone, its id stays. *)
C6_Witness ==
    /\ resp.op = "deleteRoom"
    /\ "linkFailed" \in resp.notes
    /\ resp.errs >= 1
    /\ resp.id \notin DOMAIN rooms
    /\ \E h \in DOMAIN hotels : resp.id \in Range(hotels[h].rooms)

(***************************************************************************)
(* C7.  Every handler invocation delivers exactly one outcome: one success *)
(* response or one error, never both and never neither; createRoom and     *)
(* deleteRoom send no success response when their link write failed.       *)
(***************************************************************************)
C7_ExactlyOneOutcome ==
    resp.op # "none" =>
        /\ resp.ok + resp.errs = 1
        /\ "linkFailed" \in resp.notes => resp.ok = 0

(***************************************************************************)
(* C8.  A Hotel's rooms list changes only by createRoom appending one id   *)
(* or deleteRoom removing one id; every other operation, updateHotel with  *)
(* any body included, leaves every Hotel's rooms list unchanged.           *)
(***************************************************************************)
C8_RoomsChangeOnlyByLink ==
    [][\A h \in DOMAIN hotels \cap DOMAIN hotels' :
        hotels'[h].rooms # hotels[h].rooms
        => \E p \in Procs :
            \/ /\ Completes(p, "createRoom")
               /\ hotels'[h].rooms = Append(hotels[h].rooms, req[p].id)
            \/ /\ Completes(p, "deleteRoom")
               /\ hotels'[h].rooms = SelectSeq(hotels[h].rooms, LAMBDA x : x # req[p].id)
    ]_vars

(***************************************************************************)
(* C9.  getHotel(id) for an id no stored Hotel has, and getRoom(id) for an *)
(* id no stored Room has, end with a NotFound error and no success         *)
(* response, and leave the store unchanged.                                *)
(***************************************************************************)
C9_MissingIdIsNotFound ==
    [][( \/ Answered("getHotel") /\ resp'.id \notin DOMAIN hotels
         \/ Answered("getRoom") /\ resp'.id \notin DOMAIN rooms )
        => /\ resp'.errs = 1
           /\ resp'.ok = 0
           /\ hotels' = hotels
           /\ rooms' = rooms
    ]_vars

(***************************************************************************)
(* C4.  For a hotel whose rooms list is [r1..rn] with every ri an existing *)
(* Room (every lookup finds one), getHotelRooms returns exactly n Rooms    *)
(* and the i-th is the Room with id ri, whatever order the lookups         *)
(* complete in; for an empty rooms list it returns the empty list.         *)
(***************************************************************************)
C4_RoomsInListOrder ==
    [][/\ \A p \in Procs :
            ( /\ req[p].pc = "lookup"
              /\ req'[p].pc = "idle"
              /\ resp'.errs = 0
              /\ \A i \in DOMAIN resp'.body.items : resp'.body.items[i] # Null )
            => /\ resp'.ok = 1
               /\ Len(resp'.body.items) = Len(req[p].keys)
               /\ \A i \in DOMAIN req[p].keys : resp'.body.items[i].id = req[p].keys[i]
       /\ ( /\ Answered("getHotelRooms")
            /\ req' = req
            /\ resp'.ok = 1 )
            => /\ hotels[resp'.id].rooms = <<>>
               /\ resp'.body.items = <<>>
    ]_vars

(* A list of two or more Rooms whose lookups settled out of order. *)
C4_Witness ==
    /\ resp.op = "getHotelRooms"
    /\ resp.ok = 1 /\ resp.errs = 0
    /\ "reordered" \in resp.notes
    /\ Len(resp.body.items) >= 2
    /\ \A i \in DOMAIN resp.body.items : resp.body.items[i] # Null

(***************************************************************************)
(* C5.  getHotels with price bounds min and max returns exactly the stored *)
(* Hotels matching the other filters whose cheapestPrice satisfies         *)
(* min <= cheapestPrice <= max, both bounds inclusive; an omitted bound is *)
(* 1 (min) or 999 (max), and a bound that is supplied, 0 included, is used *)
(* as given.                                                               *)
(***************************************************************************)
C5_InclusivePriceBounds ==
    [][\A q \in Queries :
        GetHotels(q, FALSE) =>
            LET lo == IF "min" \in DOMAIN q THEN q.min ELSE 1
                hi == IF "max" \in DOMAIN q THEN q.max ELSE DefaultMax
                inRange == {h \in DOMAIN hotels :
                              /\ "city" \in DOMAIN q => hotels[h].city = q.city
                              /\ lo <= hotels[h].cheapestPrice
                              /\ hotels[h].cheapestPrice <= hi}
            IN  /\ resp'.ok = 1
                /\ Range(resp'.body.items) = {hotels[h] : h \in inRange}
                /\ Len(resp'.body.items) = Cardinality(inRange)
    ]_vars

(***************************************************************************)
(* C10.  countByCity on a comma-separated list of k city names (a string   *)
(* with k - 1 commas) issues k count queries and, when all of them succeed *)
(* with no Hotel written between them, returns exactly k counts, the i-th  *)
(* being the number of stored Hotels whose city equals the i-th name: a    *)
(* repeated name has the same count at each of its positions, and the      *)
(* order in which the queries complete has no effect on the result.        *)
(***************************************************************************)
C10_CountsByPosition ==
    [][\A p \in CountProcs :
        /\ req'[p].pc = "count" /\ req[p].pc = "idle"
           => \A cities \in Strings(MaxLen) :
                 CountByCityCall(p, cities) =>
                     Len(req'[p].keys) = Cardinality({i \in DOMAIN cities : cities[i] = Comma}) + 1
        /\ ( /\ req[p].pc = "count"
             /\ req'[p].pc = "idle"
             /\ resp'.errs = 0
             /\ "dirty" \notin resp'.notes )
           => LET names == req[p].keys
                  counts == resp'.body.items
              IN  /\ resp'.ok = 1
                  /\ Len(counts) = Len(names)
                  /\ \A i \in DOMAIN names :
                        counts[i] = Cardinality({h \in DOMAIN hotels : hotels[h].city = names[i]})
                  /\ \A i, j \in DOMAIN names : names[i] = names[j] => counts[i] = counts[j]
    ]_vars

(* Counts of two or more names, not all equal, whose queries completed out *)
(* of order with no Hotel written meanwhile.                               *)
C10_Witness ==
    /\ resp.op = "countByCity"
    /\ resp.ok = 1 /\ resp.errs = 0
    /\ resp.notes = {"reordered"}
    /\ Len(resp.body.items) >= 2
    /\ \E i, j \in DOMAIN resp.body.items :
          resp.body.items[i] >= 1 /\ resp.body.items[j] # resp.body.items[i]

(***************************************************************************)
(* C11.  For every existing Hotel id, a successful updateHotel(id, {})     *)
(* leaves the stored Hotel and the rest of the store unchanged and returns *)
(* the Hotel as it was stored before the call; the same call made again on *)
(* the resulting store gives the same result and the same store.           *)
(***************************************************************************)
C11_EmptyUpdateIdempotent ==
    [][\A h \in DOMAIN hotels :
        UpdateHotel(h, EmptyBody, FALSE) =>
            /\ hotels' = hotels
            /\ rooms' = rooms
            /\ resp'.ok = 1 /\ resp'.errs = 0
            /\ resp'.body = hotels[h]
            /\ findByIdAndSet(hotels', h, EmptyBody) = hotels'
            /\ updateHotelResponse(hotels', h, EmptyBody, FALSE).body = resp'.body
    ]_vars

(* An empty update answered with a Hotel that has Rooms in its list. *)
C11_Witness ==
    /\ resp.op = "updateHotel"
    /\ resp.ok = 1 /\ resp.errs = 0
    /\ resp.id \in DOMAIN hotels
    /\ resp.body = hotels[resp.id]
    /\ resp.body.rooms # <<>>

(***************************************************************************)
(* The specification of the links at rest: createHotel, deleteHotel,       *)
(* createRoom, deleteRoom and updateRoom, one call at a time, no store     *)
(* call failing, with any issued Hotel id and Room id as arguments.        *)
(***************************************************************************)
RestNext ==
    \/ \E b \in LinkHotelBodies : CreateHotel(QueryHotelIds, b, FALSE)
    \/ \E h \in HotelInputs : DeleteHotel(h, FALSE)
    \/ \E id \in RoomInputs, b \in RoomBodies : UpdateRoom(id, b, FALSE)
    \/ \E p \in CountProcs, h \in HotelInputs, b \in RoomBodies : CreateRoomSave(p, h, b, FALSE)
    \/ \E p \in CountProcs : CreateRoomLink(p, FALSE, TRUE)
    \/ \E p \in CountProcs, h \in HotelInputs, id \in RoomInputs : DeleteRoomDelete(p, h, id, FALSE)
    \/ \E p \in CountProcs : DeleteRoomLink(p, FALSE, TRUE)

RestSpec == Init /\ [][RestNext]_vars

(***************************************************************************)
(* C12.  Referential integrity at rest: after any sequence of completed    *)
(* createRoom, deleteRoom, updateRoom, createHotel and deleteHotel calls,  *)
(* with any hotelId and room id arguments and no store call failing, when  *)
(* no createRoom or deleteRoom is in flight every id in every Hotel's      *)
(* rooms list is the id of an existing Room.                               *)
(***************************************************************************)
C12_NoDanglingAtRest ==
    (\A p \in Procs : req[p].pc = "idle")
        => \A h \in DOMAIN hotels :
              \A i \in DOMAIN hotels[h].rooms : hotels[h].rooms[i] \in DOMAIN rooms

====
